---- MODULE Spec2Model ----
(***************************************************************************)
(* FloodPilot: the DIN 1986-100 assessment engine (din1986Engine), the     *)
(* PDF report (din1986Report) and the CoPilotPage component that drives    *)
(* them.                                                                   *)
(*                                                                         *)
(* Numbers.  The program computes with JavaScript numbers.  They are       *)
(* modelled as extended rationals [n, d] in lowest terms with d >= 0:      *)
(* d > 0 is the finite value n/d, and d = 0 encodes the IEEE specials the  *)
(* divisions of the code can produce: [0,0] is NaN, [1,0] is +Infinity     *)
(* and [-1,0] is -Infinity.  Arithmetic on finite values is exact;         *)
(* comparisons with NaN are false, as in the language.                     *)
(***************************************************************************)
EXTENDS Integers, Sequences, FiniteSets, TLC

VARIABLES
    input,      \* CoPilotPage: the form's DIN1986Input
    result,     \* CoPilotPage: the stored DIN1986Result, or null
    download,   \* the file the most recent handler gave the browser to save, if any
    now,        \* the wall clock read by new Date(), in days
    call,       \* SpecUnit: the one call of a function, its arguments and its return
    calls       \* SpecCalls: the routing and the concurrent calls of the assessment

vars == <<input, result, download, now, call, calls>>

\* A nullable value is the empty sequence (null) or <<v>>.
NULL == <<>>

Some(v) == <<v>>

Val(o) == o[1]

\* ------------------------------------------------------------------ bounds

\* Largest value of the wall clock (in days) read by new Date().
MaxNow == 1

\* ------------------------------------------------------- JavaScript numbers

Abs(x) == IF x < 0 THEN -x ELSE x

Sign(x) == IF x < 0 THEN -1 ELSE IF x > 0 THEN 1 ELSE 0

RECURSIVE GCD(_, _)
GCD(a, b) == IF b = 0 THEN a ELSE GCD(b, a % b)

\* The number n/d, in lowest terms; n/0 is NaN or a signed infinity.
R(n, d) ==
    IF d = 0 THEN [n |-> Sign(n), d |-> 0]
    ELSE LET g == GCD(Abs(n), Abs(d))
             s == IF d < 0 THEN -1 ELSE 1
         IN  [n |-> (s * n) \div g, d |-> Abs(d) \div g]

Num(k) == [n |-> k, d |-> 1]

NaN == [n |-> 0, d |-> 0]

IsNaN(a) == a.d = 0 /\ a.n = 0

IsInf(a) == a.d = 0 /\ a.n # 0

IsFinite(a) == a.d > 0

\* a * b
Mul(a, b) ==
    IF IsNaN(a) \/ IsNaN(b) THEN NaN
    ELSE IF IsInf(a) \/ IsInf(b)
         THEN [n |-> Sign(a.n) * Sign(b.n), d |-> 0]
    ELSE LET g1 == GCD(Abs(a.n), b.d)
             g2 == GCD(Abs(b.n), a.d)
         IN  R((a.n \div g1) * (b.n \div g2), (a.d \div g2) * (b.d \div g1))

\* a / b
Div(a, b) ==
    IF IsNaN(a) \/ IsNaN(b) THEN NaN
    ELSE IF IsInf(a) THEN (IF IsInf(b) THEN NaN
                           ELSE [n |-> a.n * (IF b.n < 0 THEN -1 ELSE 1), d |-> 0])
    ELSE IF IsInf(b) THEN Num(0)
    ELSE IF b.n = 0 THEN [n |-> Sign(a.n), d |-> 0]
    ELSE Mul(a, R(b.d * Sign(b.n), Abs(b.n)))

\* a + b
Add(a, b) ==
    IF IsNaN(a) \/ IsNaN(b) THEN NaN
    ELSE IF IsInf(a) THEN (IF IsInf(b) /\ b.n # a.n THEN NaN ELSE a)
    ELSE IF IsInf(b) THEN b
    ELSE LET g == GCD(a.d, b.d)
         IN  R(a.n * (b.d \div g) + b.n * (a.d \div g), (a.d \div g) * b.d)

\* a - b
Sub(a, b) == Add(a, [n |-> -b.n, d |-> b.d])

\* a < b
Lt(a, b) ==
    IF IsNaN(a) \/ IsNaN(b) THEN FALSE
    ELSE IF a = b THEN FALSE
    ELSE IF IsInf(a) THEN a.n < 0
    ELSE IF IsInf(b) THEN b.n > 0
    ELSE a.n * b.d < b.n * a.d

\* a > b
Gt(a, b) == Lt(b, a)

\* a >= b
Geq(a, b) == ~IsNaN(a) /\ ~IsNaN(b) /\ ~Lt(a, b)

\* a <= b
Leq(a, b) == Geq(b, a)

\* Math.max(a, b)
Max(a, b) == IF IsNaN(a) \/ IsNaN(b) THEN NaN ELSE IF Lt(a, b) THEN b ELSE a

\* ------------------------------------------------ utils/hydrology, ml/pinnModel

\* Runoff coefficients of the impervious and the pervious part of the site.
RUNOFF_COEFFICIENTS == [impervious |-> R(9, 10), pervious |-> R(3, 10)]

\* Rational Method, Q = C * i * A, mm/hr * m2 scaled to L/s.
computePeakRunoff(rainfall, area, coeff) ==
    Div(Mul(Mul(coeff, rainfall), area), Num(3600))

\* Water-quality volume in litres: depth (mm) * area (m2) * coefficient.
computeWQv(depth, area, coeff) == Mul(Mul(depth, area), coeff)

\* The kinematic-wave results the routing may return.  Its arithmetic is not
\* part of the engine: any of these results may come back for any
\* parameters.  The peak discharges are none, the rational discharge of the
\* default site (88 L/s) and 3.0 times it, the edge of the divergence band.
KinematicWaveResults ==
    { [peakDischarge |-> q, timeToPeak |-> Num(5), equilibriumDepth |-> Num(2)] :
        q \in {Num(0), Num(88), Num(264)} }

\* The parameters are in the domain the routing is specified for: a positive
\* length, rainfall, slope, roughness and width.
ValidKinematicWaveParams(params) ==
    /\ Gt(params.length, Num(0))
    /\ Gt(params.rainfall, Num(0))
    /\ Gt(params.slope, Num(0))
    /\ Gt(params.manningN, Num(0))
    /\ Gt(params.widthSquared, Num(0))

\* What the routing may answer for params: one of KinematicWaveResults, and
\* outside its domain also a result that is not a number.
KinematicWaveAnswers(params) ==
    IF ValidKinematicWaveParams(params) THEN KinematicWaveResults
    ELSE KinematicWaveResults
           \cup {[peakDischarge |-> NaN, timeToPeak |-> NaN, equilibriumDepth |-> NaN]}

\* The routing called with params answers kw (one of KinematicWaveAnswers).
computeKinematicWaveSolution(params, kw) == kw

\* ------------------------------------------------------------ din1986Engine

\* Mutant: the 100-year entry holds the intensity of the 50-year entry.
BERLIN_KOSTRA_Shifted ==
    (2 :> Num(95)) @@ (5 :> Num(125)) @@ (10 :> Num(145)) @@
    (30 :> Num(175)) @@ (50 :> Num(195)) @@ (100 :> Num(195))

BERLIN_KOSTRA ==
    (2 :> Num(95)) @@ (5 :> Num(125)) @@ (10 :> Num(145)) @@
    (30 :> Num(175)) @@ (50 :> Num(195)) @@ (100 :> Num(220))

BESTANDEN == "BESTANDEN"

NICHT_BESTANDEN == "NICHT_BESTANDEN"

PRUEFUNG_ERFORDERLICH == "PRUEFUNG_ERFORDERLICH"

NachweisStatus == {BESTANDEN, NICHT_BESTANDEN, PRUEFUNG_ERFORDERLICH}

\* The advisory strings of generateRecommendations (their leading words).
REC_HOHER_VERSIEGELUNGSGRAD == "Hoher Versiegelungsgrad (>80%)."

REC_T100A == "T=100a Bemessungsregen angesetzt (Versiegelungsgrad >=70%)."

REC_2D_SIMULATION == "Bei Grundstuecken >2.000 m2 ist eine 2D-Simulation empfohlen."

REC_DIVERGENZ == "Analytische und PINN-Methode zeigen Divergenz."

REC_RUECKHALTEVOLUMEN == "Erforderliches Rueckhaltevolumen ueberschreitet zulaessige Grenzen."

REC_RIGOLE == "Pruefung eines Rigolen- oder Muldenversickerungssystems empfohlen."

REC_HINWEIS == "Hinweis: Dieser Entwurf ersetzt nicht die Pruefung und Freigabe durch einen Bauvorlageberechtigten Ingenieur."

\* Mutant: the quotient taken the other way round.
Versiegelungsgrad_Inverted(in) == Div(in.grundstuecksflaeche, in.versiegelteFlaeche)

\* const versiegelungsgrad = input.versiegelteFlaeche / input.grundstuecksflaeche
Versiegelungsgrad(in) == Div(in.versiegelteFlaeche, in.grundstuecksflaeche)

\* Mutant: the threshold taken inclusively (>= 800).
NachweisErforderlich_Inclusive(abflusswirksameFlaeche) ==
    Geq(abflusswirksameFlaeche, Num(800))

\* const nachweisErforderlich = abflusswirksameFlaeche > 800
NachweisErforderlich(abflusswirksameFlaeche) == Gt(abflusswirksameFlaeche, Num(800))

\* Mutant: the 70 % boundary taken strictly (> 0.7).
BemessungsregenJahre_Strict(versiegelungsgrad) ==
    IF Gt(versiegelungsgrad, R(7, 10)) THEN 100 ELSE 30

\* Mutant: the fraction compared with a percentage (>= 70).
BemessungsregenJahre_Percent(versiegelungsgrad) ==
    IF Geq(versiegelungsgrad, Num(70)) THEN 100 ELSE 30

\* const bemessungsregenJahre = versiegelungsgrad >= 0.7 ? 100 : 30
BemessungsregenJahre(versiegelungsgrad) ==
    IF Geq(versiegelungsgrad, R(7, 10)) THEN 100 ELSE 30

\* The weighted runoff coefficient.
Abflussbeiwert(in) ==
    LET perviousArea == Sub(in.grundstuecksflaeche, in.versiegelteFlaeche)
    IN  Div(Add(Mul(in.versiegelteFlaeche, RUNOFF_COEFFICIENTS.impervious),
                Mul(perviousArea, RUNOFF_COEFFICIENTS.pervious)),
            in.grundstuecksflaeche)

\* Mutant: the slope is handed over without the minimum.
KinematicWaveParams_NoClamp(in, regenspende) ==
    LET slopeDecimal == Div(in.gelaendeneigung, Num(100))
    IN  [length |-> in.fliesslaenge,
         rainfall |-> regenspende,
         slope |-> slopeDecimal,
         manningN |-> in.manningN,
         widthSquared |-> in.grundstuecksflaeche]

\* The parameters handed to computeKinematicWaveSolution.  The width is
\* Math.sqrt(grundstuecksflaeche); no result of the routing is computed from
\* it here, so it is carried as the area it is the root of.
KinematicWaveParams(in, regenspende) ==
    LET slopeDecimal == Div(in.gelaendeneigung, Num(100))
    IN  [length |-> in.fliesslaenge,
         rainfall |-> regenspende,
         slope |-> Max(slopeDecimal, R(1, 1000)),
         manningN |-> in.manningN,
         widthSquared |-> in.grundstuecksflaeche]

\* The parameters performDIN1986Assessment(in) calls the routing with: the
\* rainfall is the regenspende of the storm it selected.
RoutingCall(in) ==
    KinematicWaveParams(in, BERLIN_KOSTRA[BemessungsregenJahre(Versiegelungsgrad(in))])

\* Mutant: the exemption of sites that need no verification is dropped.
determineComplianceStatus_NoExemption(required, qRational, qPINN, retentionM3) ==
    LET ratio == Div(qPINN, qRational)
    IN  IF Lt(ratio, R(3, 10)) \/ Gt(ratio, Num(3)) THEN PRUEFUNG_ERFORDERLICH
        ELSE IF Lt(retentionM3, Num(50)) THEN BESTANDEN
        ELSE IF Lt(retentionM3, Num(200)) THEN PRUEFUNG_ERFORDERLICH
        ELSE NICHT_BESTANDEN

\* Mutant: a small retention volume passes before the methods are compared.
determineComplianceStatus_VolumeFirst(required, qRational, qPINN, retentionM3) ==
    IF ~required THEN BESTANDEN
    ELSE IF Lt(retentionM3, Num(50)) THEN BESTANDEN
    ELSE LET ratio == Div(qPINN, qRational)
         IN  IF Lt(ratio, R(3, 10)) \/ Gt(ratio, Num(3)) THEN PRUEFUNG_ERFORDERLICH
             ELSE IF Lt(retentionM3, Num(200)) THEN PRUEFUNG_ERFORDERLICH
             ELSE NICHT_BESTANDEN

\* Mutant: the 50 m3 boundary taken inclusively (<= 50 passes).
determineComplianceStatus_Inclusive50(required, qRational, qPINN, retentionM3) ==
    IF ~required THEN BESTANDEN
    ELSE LET ratio == Div(qPINN, qRational)
         IN  IF Lt(ratio, R(3, 10)) \/ Gt(ratio, Num(3)) THEN PRUEFUNG_ERFORDERLICH
             ELSE IF Leq(retentionM3, Num(50)) THEN BESTANDEN
             ELSE IF Lt(retentionM3, Num(200)) THEN PRUEFUNG_ERFORDERLICH
             ELSE NICHT_BESTANDEN

\* Mutant: a ratio that is not a number is answered with an error value.
determineComplianceStatus_ErrorOnNaN(required, qRational, qPINN, retentionM3) ==
    IF ~required THEN BESTANDEN
    ELSE LET ratio == Div(qPINN, qRational)
         IN  IF IsNaN(ratio) THEN "FEHLER"
             ELSE IF Lt(ratio, R(3, 10)) \/ Gt(ratio, Num(3)) THEN PRUEFUNG_ERFORDERLICH
             ELSE IF Lt(retentionM3, Num(50)) THEN BESTANDEN
             ELSE IF Lt(retentionM3, Num(200)) THEN PRUEFUNG_ERFORDERLICH
             ELSE NICHT_BESTANDEN

\* Mutant: a ratio that is not a number is sent to review.
determineComplianceStatus_NaNReview(required, qRational, qPINN, retentionM3) ==
    IF ~required THEN BESTANDEN
    ELSE LET ratio == Div(qPINN, qRational)
         IN  IF IsNaN(ratio) \/ Lt(ratio, R(3, 10)) \/ Gt(ratio, Num(3))
             THEN PRUEFUNG_ERFORDERLICH
             ELSE IF Lt(retentionM3, Num(50)) THEN BESTANDEN
             ELSE IF Lt(retentionM3, Num(200)) THEN PRUEFUNG_ERFORDERLICH
             ELSE NICHT_BESTANDEN

determineComplianceStatus(required, qRational, qPINN, retentionM3) ==
    IF ~required THEN BESTANDEN
    ELSE LET ratio == Div(qPINN, qRational)
         IN  IF Lt(ratio, R(3, 10)) \/ Gt(ratio, Num(3)) THEN PRUEFUNG_ERFORDERLICH
             ELSE IF Lt(retentionM3, Num(50)) THEN BESTANDEN
             ELSE IF Lt(retentionM3, Num(200)) THEN PRUEFUNG_ERFORDERLICH
             ELSE NICHT_BESTANDEN

\* Mutant: the disclaimer is pushed first instead of last.
generateRecommendations_DisclaimerFirst(in, versiegelungsgrad, status) ==
    LET r0 == <<REC_HINWEIS>>
        r1 == IF Gt(versiegelungsgrad, R(8, 10))
              THEN r0 \o <<REC_HOHER_VERSIEGELUNGSGRAD>> ELSE r0
        r2 == IF Geq(versiegelungsgrad, R(7, 10)) THEN r1 \o <<REC_T100A>> ELSE r1
        r3 == IF Gt(in.grundstuecksflaeche, Num(2000))
              THEN r2 \o <<REC_2D_SIMULATION>> ELSE r2
        r4 == IF status = PRUEFUNG_ERFORDERLICH THEN r3 \o <<REC_DIVERGENZ>> ELSE r3
    IN  IF status = NICHT_BESTANDEN
        THEN r4 \o <<REC_RUECKHALTEVOLUMEN, REC_RIGOLE>> ELSE r4

\* Mutant: the 80 % advisory given from 0.8 on (>= 0.8).
generateRecommendations_Inclusive80(in, versiegelungsgrad, status) ==
    LET r1 == IF Geq(versiegelungsgrad, R(8, 10))
              THEN <<REC_HOHER_VERSIEGELUNGSGRAD>> ELSE <<>>
        r2 == IF Geq(versiegelungsgrad, R(7, 10)) THEN r1 \o <<REC_T100A>> ELSE r1
        r3 == IF Gt(in.grundstuecksflaeche, Num(2000))
              THEN r2 \o <<REC_2D_SIMULATION>> ELSE r2
        r4 == IF status = PRUEFUNG_ERFORDERLICH THEN r3 \o <<REC_DIVERGENZ>> ELSE r3
        r5 == IF status = NICHT_BESTANDEN
              THEN r4 \o <<REC_RUECKHALTEVOLUMEN, REC_RIGOLE>> ELSE r4
    IN  r5 \o <<REC_HINWEIS>>

\* Mutant: the site-area advisory is pushed before the storm advisory.
generateRecommendations_Reordered(in, versiegelungsgrad, status) ==
    LET r1 == IF Gt(versiegelungsgrad, R(8, 10))
              THEN <<REC_HOHER_VERSIEGELUNGSGRAD>> ELSE <<>>
        r2 == IF Gt(in.grundstuecksflaeche, Num(2000))
              THEN r1 \o <<REC_2D_SIMULATION>> ELSE r1
        r3 == IF Geq(versiegelungsgrad, R(7, 10)) THEN r2 \o <<REC_T100A>> ELSE r2
        r4 == IF status = PRUEFUNG_ERFORDERLICH THEN r3 \o <<REC_DIVERGENZ>> ELSE r3
        r5 == IF status = NICHT_BESTANDEN
              THEN r4 \o <<REC_RUECKHALTEVOLUMEN, REC_RIGOLE>> ELSE r4
    IN  r5 \o <<REC_HINWEIS>>

\* Mutant: the storm advisory given only above 0.7 (> 0.7).
generateRecommendations_Strict70(in, versiegelungsgrad, status) ==
    LET r1 == IF Gt(versiegelungsgrad, R(8, 10))
              THEN <<REC_HOHER_VERSIEGELUNGSGRAD>> ELSE <<>>
        r2 == IF Gt(versiegelungsgrad, R(7, 10)) THEN r1 \o <<REC_T100A>> ELSE r1
        r3 == IF Gt(in.grundstuecksflaeche, Num(2000))
              THEN r2 \o <<REC_2D_SIMULATION>> ELSE r2
        r4 == IF status = PRUEFUNG_ERFORDERLICH THEN r3 \o <<REC_DIVERGENZ>> ELSE r3
        r5 == IF status = NICHT_BESTANDEN
              THEN r4 \o <<REC_RUECKHALTEVOLUMEN, REC_RIGOLE>> ELSE r4
    IN  r5 \o <<REC_HINWEIS>>

\* Mutant: the divergence advisory is given for a failed verification too.
generateRecommendations_DivergenzOnFail(in, versiegelungsgrad, status) ==
    LET r1 == IF Gt(versiegelungsgrad, R(8, 10))
              THEN <<REC_HOHER_VERSIEGELUNGSGRAD>> ELSE <<>>
        r2 == IF Geq(versiegelungsgrad, R(7, 10)) THEN r1 \o <<REC_T100A>> ELSE r1
        r3 == IF Gt(in.grundstuecksflaeche, Num(2000))
              THEN r2 \o <<REC_2D_SIMULATION>> ELSE r2
        r4 == IF status \in {PRUEFUNG_ERFORDERLICH, NICHT_BESTANDEN}
              THEN r3 \o <<REC_DIVERGENZ>> ELSE r3
        r5 == IF status = NICHT_BESTANDEN
              THEN r4 \o <<REC_RUECKHALTEVOLUMEN, REC_RIGOLE>> ELSE r4
    IN  r5 \o <<REC_HINWEIS>>

generateRecommendations(in, versiegelungsgrad, status) ==
    LET r1 == IF Gt(versiegelungsgrad, R(8, 10))
              THEN <<REC_HOHER_VERSIEGELUNGSGRAD>> ELSE <<>>
        r2 == IF Geq(versiegelungsgrad, R(7, 10)) THEN r1 \o <<REC_T100A>> ELSE r1
        r3 == IF Gt(in.grundstuecksflaeche, Num(2000))
              THEN r2 \o <<REC_2D_SIMULATION>> ELSE r2
        r4 == IF status = PRUEFUNG_ERFORDERLICH THEN r3 \o <<REC_DIVERGENZ>> ELSE r3
        r5 == IF status = NICHT_BESTANDEN
              THEN r4 \o <<REC_RUECKHALTEVOLUMEN, REC_RIGOLE>> ELSE r4
    IN  r5 \o <<REC_HINWEIS>>

\* Mutant: the water-quality volume is taken over the impervious area.
performDIN1986Assessment_ImperviousWQv(in, kw, t) ==
    LET abflusswirksameFlaeche == in.versiegelteFlaeche
        versiegelungsgrad == Versiegelungsgrad(in)
        nachweisErforderlich == NachweisErforderlich(abflusswirksameFlaeche)
        bemessungsregenJahre == BemessungsregenJahre(versiegelungsgrad)
        regenspende == BERLIN_KOSTRA[bemessungsregenJahre]
        abflussbeiwert == Abflussbeiwert(in)
        spitzenabflussRational ==
            computePeakRunoff(regenspende, in.grundstuecksflaeche, abflussbeiwert)
        kinematischeWelle ==
            computeKinematicWaveSolution(KinematicWaveParams(in, regenspende), kw)
        spitzenabflussPINN == kinematischeWelle.peakDischarge
        wasserqualitaetsvolumen ==
            computeWQv(Num(25), in.versiegelteFlaeche, abflussbeiwert)
        rueckhaltevolumen == Div(wasserqualitaetsvolumen, Num(1000))
        nachweisStatus ==
            determineComplianceStatus(nachweisErforderlich, spitzenabflussRational,
                                      spitzenabflussPINN, rueckhaltevolumen)
        empfehlungen == generateRecommendations(in, versiegelungsgrad, nachweisStatus)
    IN  [nachweisErforderlich |-> nachweisErforderlich,
         begruendung |-> <<IF nachweisErforderlich THEN "ueberschreitet" ELSE "unter",
                           abflusswirksameFlaeche>>,
         abflusswirksameFlaeche |-> abflusswirksameFlaeche,
         versiegelungsgrad |-> versiegelungsgrad,
         bemessungsregenJahre |-> bemessungsregenJahre,
         regenspende |-> regenspende,
         abflussbeiwert |-> abflussbeiwert,
         spitzenabflussRational |-> spitzenabflussRational,
         spitzenabflussPINN |-> spitzenabflussPINN,
         rueckhaltevolumen |-> rueckhaltevolumen,
         wasserqualitaetsvolumen |-> wasserqualitaetsvolumen,
         kinematischeWelle |-> kinematischeWelle,
         nachweisStatus |-> nachweisStatus,
         zeitstempel |-> t,
         empfehlungen |-> empfehlungen]

\* The assessment of in, when the routing answers kw and the clock reads t.
performDIN1986Assessment(in, kw, t) ==
    LET abflusswirksameFlaeche == in.versiegelteFlaeche
        versiegelungsgrad == Versiegelungsgrad(in)
        nachweisErforderlich == NachweisErforderlich(abflusswirksameFlaeche)
        bemessungsregenJahre == BemessungsregenJahre(versiegelungsgrad)
        regenspende == BERLIN_KOSTRA[bemessungsregenJahre]
        abflussbeiwert == Abflussbeiwert(in)
        spitzenabflussRational ==
            computePeakRunoff(regenspende, in.grundstuecksflaeche, abflussbeiwert)
        kinematischeWelle ==
            computeKinematicWaveSolution(KinematicWaveParams(in, regenspende), kw)
        spitzenabflussPINN == kinematischeWelle.peakDischarge
        wasserqualitaetsvolumen ==
            computeWQv(Num(25), in.grundstuecksflaeche, abflussbeiwert)
        rueckhaltevolumen == Div(wasserqualitaetsvolumen, Num(1000))
        nachweisStatus ==
            determineComplianceStatus(nachweisErforderlich, spitzenabflussRational,
                                      spitzenabflussPINN, rueckhaltevolumen)
        empfehlungen == generateRecommendations(in, versiegelungsgrad, nachweisStatus)
    IN  [nachweisErforderlich |-> nachweisErforderlich,
         begruendung |-> <<IF nachweisErforderlich THEN "ueberschreitet" ELSE "unter",
                           abflusswirksameFlaeche>>,
         abflusswirksameFlaeche |-> abflusswirksameFlaeche,
         versiegelungsgrad |-> versiegelungsgrad,
         bemessungsregenJahre |-> bemessungsregenJahre,
         regenspende |-> regenspende,
         abflussbeiwert |-> abflussbeiwert,
         spitzenabflussRational |-> spitzenabflussRational,
         spitzenabflussPINN |-> spitzenabflussPINN,
         rueckhaltevolumen |-> rueckhaltevolumen,
         wasserqualitaetsvolumen |-> wasserqualitaetsvolumen,
         kinematischeWelle |-> kinematischeWelle,
         nachweisStatus |-> nachweisStatus,
         zeitstempel |-> t,
         empfehlungen |-> empfehlungen]

\* ------------------------------------------------------------ din1986Report

NOTE_GUT == "gute Uebereinstimmung"

NOTE_PRUEFUNG == "Pruefung empfohlen"

\* Mutant: the note uses the band of the engine, 0.3 to 3.0 inclusive.
generateDIN1986PDF_EngineBand(res, projectName) ==
    LET ratio == Div(res.spitzenabflussPINN, res.spitzenabflussRational)
    IN  [projectName |-> projectName,
         note |-> IF Geq(ratio, R(3, 10)) /\ Leq(ratio, Num(3))
                  THEN NOTE_GUT ELSE NOTE_PRUEFUNG]

\* The parts of the generated document that depend on its arguments: the
\* project line of the header and the method-comparison note.
generateDIN1986PDF(res, projectName) ==
    LET ratio == Div(res.spitzenabflussPINN, res.spitzenabflussRational)
    IN  [projectName |-> projectName,
         note |-> IF Gt(ratio, R(1, 2)) /\ Lt(ratio, Num(2))
                  THEN NOTE_GUT ELSE NOTE_PRUEFUNG]

\* -------------------------------------------------------------- CoPilotPage

\* Mutant: the form starts with half the impervious area.
DEFAULT_INPUT_Half ==
    [projectName |-> "",
     grundstuecksflaeche |-> Num(2000),
     versiegelteFlaeche |-> Num(700),
     bodenart |-> "SU",
     gelaendeneigung |-> Num(2),
     manningN |-> R(15, 1000),
     fliesslaenge |-> Num(50),
     latitude |-> R(5252, 100),
     longitude |-> R(13405, 1000)]

DEFAULT_INPUT ==
    [projectName |-> "",
     grundstuecksflaeche |-> Num(2000),
     versiegelteFlaeche |-> Num(1400),
     bodenart |-> "SU",
     gelaendeneigung |-> Num(2),
     manningN |-> R(15, 1000),
     fliesslaenge |-> Num(50),
     latitude |-> R(5252, 100),
     longitude |-> R(13405, 1000)]

\* The fields the form edits, and the values typed into each.
Fields ==
    {"projectName", "grundstuecksflaeche", "versiegelteFlaeche", "bodenart",
     "gelaendeneigung", "fliesslaenge", "manningN"}

TotalAreas == {Num(0), Num(1000), Num(2000), Num(10000)}

ImperviousAreas ==
    {Num(0), Num(700), Num(800), Num(801), Num(1000), Num(1400), Num(6900)}

FieldValues(field) ==
    CASE field = "projectName" -> {"", "MeinProjekt"}
      [] field = "grundstuecksflaeche" -> TotalAreas
      [] field = "versiegelteFlaeche" -> ImperviousAreas
      [] field = "bodenart" -> {"SU"}
      [] field = "gelaendeneigung" -> {Num(0), Num(2)}
      [] field = "fliesslaenge" -> {Num(50)}
      [] field = "manningN" -> {R(15, 1000)}

\* x.toFixed(0): the nearest integer in decimal digits, a tie going away
\* from zero, with the sign of x in front; NaN and the infinities by name.
toFixed0(x) ==
    IF IsNaN(x) THEN "NaN"
    ELSE IF IsInf(x) THEN (IF x.n < 0 THEN "-Infinity" ELSE "Infinity")
    ELSE (IF x.n < 0 THEN "-" ELSE "")
           \o ToString((2 * Abs(x.n) + x.d) \div (2 * x.d))

\* Mutant: the fraction is computed without the guard for a total area of 0.
panelVersiegelungsgrad_NoGuard(in) ==
    Div(in.versiegelteFlaeche, in.grundstuecksflaeche)

\* The component's versiegelungsgrad (useMemo): 0 for a total area of 0 or less.
panelVersiegelungsgrad(in) ==
    IF Leq(in.grundstuecksflaeche, Num(0)) THEN Num(0)
    ELSE Div(in.versiegelteFlaeche, in.grundstuecksflaeche)

\* Mutant: the component takes the threshold inclusively (>= 800).
panelNachweisErforderlich_Inclusive(in) == Geq(in.versiegelteFlaeche, Num(800))

\* The component's nachweisErforderlich.
panelNachweisErforderlich(in) == Gt(in.versiegelteFlaeche, Num(800))

\* Mutant: once a result is stored, the indicator shows the result's flag.
render_IndicatorFromResult(in, res) ==
    [threshold |-> IF (IF res # NULL THEN Val(res).nachweisErforderlich
                       ELSE panelNachweisErforderlich(in))
                   THEN "required" ELSE "not-required",
     thresholdText |-> IF panelNachweisErforderlich(in)
                       THEN "Ueberflutungsnachweis erforderlich"
                       ELSE "Vereinfachtes Verfahren ausreichend",
     versiegelungsgrad |->
         "Versiegelungsgrad: "
           \o toFixed0(Mul(panelVersiegelungsgrad(in), Num(100))) \o "%",
     storm |-> IF Geq(panelVersiegelungsgrad(in), R(7, 10)) THEN "T=100a" ELSE "T=30a",
     results |-> IF res = NULL THEN "copilot-results-empty" ELSE "ResultsView",
     exportButton |-> res # NULL]

\* What the component renders for its state: the class and the text of the
\* threshold indicator, the Versiegelungsgrad heading with its storm tag, and
\* the results panel (the empty state, or the results with the export
\* button).
render(in, res) ==
    [threshold |-> IF panelNachweisErforderlich(in) THEN "required" ELSE "not-required",
     thresholdText |-> IF panelNachweisErforderlich(in)
                       THEN "Ueberflutungsnachweis erforderlich"
                       ELSE "Vereinfachtes Verfahren ausreichend",
     versiegelungsgrad |->
         "Versiegelungsgrad: "
           \o toFixed0(Mul(panelVersiegelungsgrad(in), Num(100))) \o "%",
     storm |-> IF Geq(panelVersiegelungsgrad(in), R(7, 10)) THEN "T=100a" ELSE "T=30a",
     results |-> IF res = NULL THEN "copilot-results-empty" ELSE "ResultsView",
     exportButton |-> res # NULL]

\* new Date().toISOString().slice(0, 10): the UTC date of the clock, which
\* counts the days since 1970-01-01 and stays within January 1970.
isoDate(day) ==
    "1970-01-" \o (IF day + 1 < 10 THEN "0" ELSE "") \o ToString(day + 1)

\* Mutant: an edit of the form also discards the stored result.
handleChange_ResetsResult ==
    \E field \in Fields :
        \E value \in FieldValues(field) :
            /\ input' = [input EXCEPT ![field] = value]
            /\ result' = NULL
            /\ download' = NULL
            /\ UNCHANGED <<now, call, calls>>

\* setInput(prev => ({ ...prev, [field]: value }))
handleChange ==
    \E field \in Fields :
        \E value \in FieldValues(field) :
            /\ input' = [input EXCEPT ![field] = value]
            /\ download' = NULL
            /\ UNCHANGED <<result, now, call, calls>>

\* Mutant: the assessment is computed from the default input.
handleCalculate_FromDefault ==
    \E kw \in KinematicWaveAnswers(RoutingCall(DEFAULT_INPUT)) :
        /\ result' = Some(performDIN1986Assessment(DEFAULT_INPUT, kw, now))
        /\ download' = NULL
        /\ UNCHANGED <<input, now, call, calls>>

\* setResult(performDIN1986Assessment(input))
handleCalculate ==
    \E kw \in KinematicWaveAnswers(RoutingCall(input)) :
        /\ result' = Some(performDIN1986Assessment(input, kw, now))
        /\ download' = NULL
        /\ UNCHANGED <<input, now, call, calls>>

\* Mutant: the two fallback names are swapped.
handleExportPDF_SwappedFallbacks ==
    IF result = NULL THEN download' = NULL /\ UNCHANGED <<input, result, now, call, calls>>
    ELSE /\ download' = Some(
              [fileName |-> "Ueberflutungsnachweis_"
                              \o (IF input.projectName # "" THEN input.projectName
                                  ELSE "Unbenanntes Projekt")
                              \o "_" \o isoDate(now) \o ".pdf",
               pdf |-> generateDIN1986PDF(Val(result),
                           IF input.projectName # "" THEN input.projectName
                           ELSE "Entwurf")])
         /\ UNCHANGED <<input, result, now, call, calls>>

\* Returns at once without a result; else generates the document and saves
\* it under the name built from the project name and today's date.
handleExportPDF ==
    IF result = NULL THEN download' = NULL /\ UNCHANGED <<input, result, now, call, calls>>
    ELSE /\ download' = Some(
              [fileName |-> "Ueberflutungsnachweis_"
                              \o (IF input.projectName # "" THEN input.projectName
                                  ELSE "Entwurf")
                              \o "_" \o isoDate(now) \o ".pdf",
               pdf |-> generateDIN1986PDF(Val(result),
                           IF input.projectName # "" THEN input.projectName
                           ELSE "Unbenanntes Projekt")])
         /\ UNCHANGED <<input, result, now, call, calls>>

\* The wall clock read by new Date() advances.
Tick ==
    /\ now < MaxNow
    /\ now' = now + 1
    /\ UNCHANGED <<input, result, download, call, calls>>

Init ==
    /\ input = DEFAULT_INPUT
    /\ result = NULL
    /\ download = NULL
    /\ now = 0
    /\ call = NULL
    /\ calls = NULL

Next == handleChange \/ handleCalculate \/ handleExportPDF \/ Tick

Spec == Init /\ [][Next]_vars

\* ------------------------------------------- the engine's functions, on their own
\* determineComplianceStatus and generateRecommendations are pure functions
\* of their arguments, and performDIN1986Assessment is one of its input, the
\* answer of the routing and the clock.  SpecUnit draws the arguments of one
\* call from the sets below and applies the function.

QRationalValues == {Num(0), Num(10), Num(100)}

QPINNValues ==
    {Num(-1), Num(0), Num(2), Num(3), Num(10), Num(29), Num(30), Num(31), Num(300), Num(301)}

RetentionValues ==
    {Num(0), Num(49), R(499, 10), Num(50), Num(199), R(1999, 10), Num(200), Num(1000)}

VersiegelungsgradValues ==
    {Num(0), R(69, 100), R(7, 10), R(3, 4), R(8, 10), R(81, 100), Num(1),
     R(3, 2), NaN, R(1, 0)}

RecommendationAreas == {Num(0), Num(1000), Num(2000), Num(2001), Num(10000)}

ComplianceCalls ==
    { [fn |-> "determineComplianceStatus", args |-> <<req, qR, qP, vol>>,
       done |-> FALSE, ret |-> <<>>] :
        req \in BOOLEAN, qR \in QRationalValues, qP \in QPINNValues,
        vol \in RetentionValues }

RecommendationCalls ==
    { [fn |-> "generateRecommendations",
       args |-> <<[DEFAULT_INPUT EXCEPT !.grundstuecksflaeche = g], vg, st>>,
       done |-> FALSE, ret |-> <<>>] :
        g \in RecommendationAreas, vg \in VersiegelungsgradValues,
        st \in NachweisStatus }

\* Inputs of performDIN1986Assessment: sites inside and outside the caller's
\* invariant (no area at all, more sealed than there is), slopes in percent
\* around the 0.1 % clamp, and the ends of the roughness range.
AssessmentTotalAreas == {Num(0), Num(1000), Num(2000), Num(10000), Num(100000)}

AssessmentImperviousAreas == {Num(0), Num(800), Num(1400), Num(3000), Num(80000)}

AssessmentSlopes == {Num(-1), Num(0), R(1, 20), R(1, 10), Num(2), Num(20)}

AssessmentManningN == {R(1, 100), R(15, 1000), R(1, 10)}

AssessmentFliesslaengen == {Num(0), Num(50)}

AssessmentCalls ==
    { [fn |-> "performDIN1986Assessment",
       args |-> <<[DEFAULT_INPUT EXCEPT !.grundstuecksflaeche = g,
                                        !.versiegelteFlaeche = v,
                                        !.gelaendeneigung = sl,
                                        !.manningN = n,
                                        !.fliesslaenge = len]>>,
       done |-> FALSE, ret |-> <<>>, routed |-> <<>>] :
        g \in AssessmentTotalAreas, v \in AssessmentImperviousAreas,
        sl \in AssessmentSlopes, n \in AssessmentManningN,
        len \in AssessmentFliesslaengen }

InitUnit ==
    /\ input = DEFAULT_INPUT
    /\ result = NULL
    /\ download = NULL
    /\ now = 0
    /\ call \in ComplianceCalls \cup RecommendationCalls \cup AssessmentCalls
    /\ calls = NULL

callDetermineComplianceStatus ==
    /\ call.fn = "determineComplianceStatus"
    /\ ~call.done
    /\ call' = [call EXCEPT !.done = TRUE,
                            !.ret = <<determineComplianceStatus(
                                        call.args[1], call.args[2],
                                        call.args[3], call.args[4])>>]
    /\ UNCHANGED <<input, result, download, now, calls>>

callGenerateRecommendations ==
    /\ call.fn = "generateRecommendations"
    /\ ~call.done
    /\ call' = [call EXCEPT !.done = TRUE,
                            !.ret = generateRecommendations(
                                        call.args[1], call.args[2], call.args[3])]
    /\ UNCHANGED <<input, result, download, now, calls>>

\* One call of performDIN1986Assessment: routed is the parameter record it
\* passed to computeKinematicWaveSolution, ret the DIN1986Result it returned.
callPerformDIN1986Assessment ==
    /\ call.fn = "performDIN1986Assessment"
    /\ ~call.done
    /\ \E kw \in KinematicWaveAnswers(RoutingCall(call.args[1])) :
          call' = [call EXCEPT !.done = TRUE,
                               !.routed = <<RoutingCall(call.args[1])>>,
                               !.ret = <<performDIN1986Assessment(call.args[1], kw, now)>>]
    /\ UNCHANGED <<input, result, download, now, calls>>

NextUnit ==
    \/ callDetermineComplianceStatus
    \/ callGenerateRecommendations
    \/ callPerformDIN1986Assessment

SpecUnit == InitUnit /\ [][NextUnit]_vars

\* ---------------------------------------- concurrent calls of the assessment
\* SpecCalls runs three calls of performDIN1986Assessment side by side.  A
\* call touches its surroundings twice: it calls the routing, and it reads
\* the clock when it builds the result it returns.  The routing is a pure
\* function of its parameters: which one is not known, so any function
\* from the parameters in use to the answers the routing may give is drawn
\* at the start and stays.

InvocationIds == {1, 2, 3}

\* The inputs the calls are made with: the default site (100-year storm) and
\* the same site with 800 m2 sealed (30-year storm).
InvocationInputs ==
    {DEFAULT_INPUT, [DEFAULT_INPUT EXCEPT !.versiegelteFlaeche = Num(800)]}

Routings ==
    {f \in [{RoutingCall(in) : in \in InvocationInputs} -> KinematicWaveResults] :
        \A params \in DOMAIN f : f[params] \in KinematicWaveAnswers(params)}

InitCalls ==
    /\ input = DEFAULT_INPUT
    /\ result = NULL
    /\ download = NULL
    /\ now = 0
    /\ call = NULL
    /\ \E routing \in Routings :
         \E ins \in [InvocationIds -> InvocationInputs] :
            calls = [routing |-> routing,
                     inv |-> [i \in InvocationIds |->
                                [in |-> ins[i], pc |-> "called",
                                 kinematischeWelle |-> NULL, ret |-> NULL]]]

\* Call i reaches computeKinematicWaveSolution and gets its answer.
routeAssessment(i) ==
    /\ calls.inv[i].pc = "called"
    /\ calls' = [calls EXCEPT
                   !.inv[i].pc = "routed",
                   !.inv[i].kinematischeWelle =
                       Some(calls.routing[RoutingCall(calls.inv[i].in)])]
    /\ UNCHANGED <<input, result, download, now, call>>

\* Mutant: the result is kept in a variable of the module, and a call
\* returns the result another call left there, if there is one.
returnAssessment_ModuleLevelResult(i) ==
    /\ calls.inv[i].pc = "routed"
    /\ LET left == {j \in InvocationIds : calls.inv[j].pc = "returned"}
       IN  calls' = [calls EXCEPT
                      !.inv[i].pc = "returned",
                      !.inv[i].ret =
                          IF left # {} THEN calls.inv[CHOOSE j \in left : TRUE].ret
                          ELSE Some(performDIN1986Assessment(
                                      calls.inv[i].in,
                                      Val(calls.inv[i].kinematischeWelle), now))]
    /\ UNCHANGED <<input, result, download, now, call>>

\* Call i reads the clock, builds its result and returns it.
returnAssessment(i) ==
    /\ calls.inv[i].pc = "routed"
    /\ calls' = [calls EXCEPT
                   !.inv[i].pc = "returned",
                   !.inv[i].ret =
                       Some(performDIN1986Assessment(
                              calls.inv[i].in,
                              Val(calls.inv[i].kinematischeWelle), now))]
    /\ UNCHANGED <<input, result, download, now, call>>

NextCalls ==
    \/ \E i \in InvocationIds : routeAssessment(i)
    \/ \E i \in InvocationIds : returnAssessment(i)
    \/ Tick

SpecCalls == InitCalls /\ [][NextCalls]_vars

\* ================================================================== claims

\* The input is a site the caller may pass: a positive total area and an
\* impervious area between 0 and the total area.
ValidSite(in) ==
    /\ IsFinite(in.grundstuecksflaeche) /\ in.grundstuecksflaeche.n > 0
    /\ IsFinite(in.versiegelteFlaeche) /\ in.versiegelteFlaeche.n >= 0
    /\ in.versiegelteFlaeche.n * in.grundstuecksflaeche.d
         <= in.grundstuecksflaeche.n * in.versiegelteFlaeche.d

\* 10 * num(a) compared with k * den(a), for a finite a: a >= k/10, a > k/10.
AtLeastTenths(a, k) == 10 * a.n >= k * a.d

MoreThanTenths(a, k) == 10 * a.n > k * a.d

Range(seq) == {seq[i] : i \in 1..Len(seq)}

\* The step stores a new result.  Only handleCalculate writes result, and
\* every form input is reached while result is still null, so the steps that
\* store a new result cover the assessment of every input, every answer of
\* the routing and every reading of the clock.
Calculated == result' # result

\* C1: every assessment sets nachweisErforderlich to true exactly when the
\* impervious area of the input exceeds 800 (false at 800 itself), whatever
\* the other fields of the input hold.
C1_RequiredIffAbove800 ==
    [][Calculated =>
        (Val(result').nachweisErforderlich
            <=> (input.versiegelteFlaeche.n > 800 * input.versiegelteFlaeche.d))]_vars

\* C1 witness: a result computed for exactly 800 m2, with the flag false.
C1_Witness ==
    /\ result # NULL
    /\ Val(result).abflusswirksameFlaeche = Num(800)
    /\ ~Val(result).nachweisErforderlich

\* C2: for a positive total area, every assessment selects the 100-year
\* storm exactly when impervious / total >= 0.70 (10 * impervious >=
\* 7 * total), and the 30-year storm otherwise; no other period occurs.
C2_StormIffFractionAtLeast70 ==
    [][Calculated /\ input.grundstuecksflaeche.n > 0 =>
        /\ Val(result').bemessungsregenJahre \in {30, 100}
        /\ (Val(result').bemessungsregenJahre = 100
              <=> (10 * input.versiegelteFlaeche.n * input.grundstuecksflaeche.d
                     >= 7 * input.grundstuecksflaeche.n * input.versiegelteFlaeche.d))]_vars

\* C2 witness: 700 of 1000 m2, a fraction of exactly 0.70, under the
\* 100-year storm.
C2_Witness ==
    /\ result # NULL
    /\ Val(result).abflusswirksameFlaeche = Num(700)
    /\ Val(result).versiegelungsgrad = R(7, 10)
    /\ Val(result).bemessungsregenJahre = 100

ComplianceReturned == call.fn = "determineComplianceStatus" /\ call.done

\* The ratio determineComplianceStatus compares, for the call's arguments.
CallRatio == Div(call.args[3], call.args[2])

\* C3: when verification is not required the status is BESTANDEN, whatever
\* the two discharges and the retention volume are; so any other status
\* implies that verification is required.
C3_NotRequiredPasses ==
    ComplianceReturned =>
        /\ (~call.args[1] => call.ret = <<BESTANDEN>>)
        /\ (call.ret # <<BESTANDEN>> => call.args[1])

\* C3 witness: not required, the ratio at 30 and the volume at 1000 m3, and
\* the status is BESTANDEN.
C3_Witness ==
    /\ ComplianceReturned
    /\ call.args = <<FALSE, Num(10), Num(300), Num(1000)>>
    /\ call.ret = <<BESTANDEN>>

\* C4: when verification is required and the ratio of the kinematic to the
\* rational discharge is below 0.3 or above 3.0, the status is
\* PRUEFUNG_ERFORDERLICH for every retention volume; a ratio of exactly 0.3
\* or exactly 3.0 is no divergence: the volume then decides, so a volume
\* under 50 m3 passes.
C4_DivergenceNeedsReview ==
    ComplianceReturned /\ call.args[1] =>
        /\ (Lt(CallRatio, R(3, 10)) \/ Gt(CallRatio, Num(3))
              => call.ret = <<PRUEFUNG_ERFORDERLICH>>)
        /\ (CallRatio \in {R(3, 10), Num(3)} /\ Lt(call.args[4], Num(50))
              => call.ret = <<BESTANDEN>>)
        /\ (CallRatio \in {R(3, 10), Num(3)} /\ Geq(call.args[4], Num(200))
              => call.ret = <<NICHT_BESTANDEN>>)

\* C4 witness: required, a ratio of 0.2 and no retention volume at all, and
\* the status is PRUEFUNG_ERFORDERLICH.
C4_Witness ==
    /\ ComplianceReturned
    /\ call.args = <<TRUE, Num(10), Num(2), Num(0)>>
    /\ call.ret = <<PRUEFUNG_ERFORDERLICH>>

\* C5: when verification is required and 0.3 <= ratio <= 3.0, the retention
\* volume alone decides: BESTANDEN iff volume < 50, PRUEFUNG_ERFORDERLICH iff
\* 50 <= volume < 200, NICHT_BESTANDEN iff volume >= 200.
C5_VolumeDecidesInsideBand ==
    ComplianceReturned /\ call.args[1]
      /\ Geq(CallRatio, R(3, 10)) /\ Leq(CallRatio, Num(3)) =>
        LET vol == call.args[4]
        IN  /\ call.ret[1] \in NachweisStatus
            /\ (call.ret = <<BESTANDEN>> <=> vol.n < 50 * vol.d)
            /\ (call.ret = <<PRUEFUNG_ERFORDERLICH>>
                  <=> (vol.n >= 50 * vol.d /\ vol.n < 200 * vol.d))
            /\ (call.ret = <<NICHT_BESTANDEN>> <=> vol.n >= 200 * vol.d)

\* C5 witness: required, a ratio of exactly 3.0 and a volume of exactly
\* 50 m3, and the status is PRUEFUNG_ERFORDERLICH.
C5_Witness ==
    /\ ComplianceReturned
    /\ call.args = <<TRUE, Num(10), Num(30), Num(50)>>
    /\ call.ret = <<PRUEFUNG_ERFORDERLICH>>

\* C6: the requirement flag and the storm period are independent: whatever
\* the form holds, each of the four combinations of nachweisErforderlich and
\* bemessungsregenJahre is what the assessment decides for some valid site
\* that editing the two area fields reaches.
C6_FlagAndStormIndependent ==
    \A req \in BOOLEAN, jahre \in {30, 100} :
        \E g \in TotalAreas, v \in ImperviousAreas :
            LET in == [input EXCEPT !.grundstuecksflaeche = g,
                                    !.versiegelteFlaeche = v]
            IN  /\ ValidSite(in)
                /\ NachweisErforderlich(in.versiegelteFlaeche) = req
                /\ BemessungsregenJahre(Versiegelungsgrad(in)) = jahre

\* C6 witness: a stored result of a valid site that needs no verification
\* and yet takes the 100-year storm.
C6_Witness ==
    /\ result # NULL
    /\ IsFinite(Val(result).versiegelungsgrad)
    /\ Leq(Val(result).versiegelungsgrad, Num(1))
    /\ ~Val(result).nachweisErforderlich
    /\ Val(result).bemessungsregenJahre = 100

RecommendationsReturned == call.fn = "generateRecommendations" /\ call.done

\* C7: the list of recommendations is never empty, ends with the fixed
\* disclaimer, and holds the disclaimer exactly once.
C7_DisclaimerLastAndOnce ==
    RecommendationsReturned =>
        /\ Len(call.ret) >= 1
        /\ call.ret[Len(call.ret)] = REC_HINWEIS
        /\ Cardinality({i \in 1..Len(call.ret) : call.ret[i] = REC_HINWEIS}) = 1

\* C7 witness: the longest list (a failing, highly sealed, large site), with
\* the disclaimer in its sixth and last place.
C7_Witness ==
    /\ RecommendationsReturned
    /\ call.args[3] = NICHT_BESTANDEN
    /\ Len(call.ret) = 6
    /\ call.ret[6] = REC_HINWEIS

\* C8: the list holds the >80 % advisory exactly when the fraction is above
\* 0.8; at exactly 0.8 it is absent while the >=70 % advisory is present.
C8_Advisory80Strict ==
    RecommendationsReturned =>
        LET vg == call.args[2]
        IN  /\ (REC_HOHER_VERSIEGELUNGSGRAD \in Range(call.ret)
                  <=> IF IsFinite(vg) THEN MoreThanTenths(vg, 8) ELSE vg = R(1, 0))
            /\ (vg = R(8, 10) => /\ REC_HOHER_VERSIEGELUNGSGRAD \notin Range(call.ret)
                                 /\ REC_T100A \in Range(call.ret))

\* C8 witness: a fraction of exactly 0.8, with the >=70 % advisory and
\* without the >80 % advisory.
C8_Witness ==
    /\ RecommendationsReturned
    /\ call.args[2] = R(8, 10)
    /\ REC_T100A \in Range(call.ret)
    /\ REC_HOHER_VERSIEGELUNGSGRAD \notin Range(call.ret)

\* The fixed order of the advisories.
AdvisoryOrder ==
    <<REC_HOHER_VERSIEGELUNGSGRAD, REC_T100A, REC_2D_SIMULATION, REC_DIVERGENZ,
      REC_RUECKHALTEVOLUMEN, REC_RIGOLE, REC_HINWEIS>>

\* The advisories the arguments select.
Selected(in, vg, status) ==
    (IF IF IsFinite(vg) THEN MoreThanTenths(vg, 8) ELSE vg = R(1, 0)
     THEN {REC_HOHER_VERSIEGELUNGSGRAD} ELSE {})
    \cup (IF IF IsFinite(vg) THEN AtLeastTenths(vg, 7) ELSE vg = R(1, 0)
          THEN {REC_T100A} ELSE {})
    \cup (IF in.grundstuecksflaeche.n > 2000 * in.grundstuecksflaeche.d
          THEN {REC_2D_SIMULATION} ELSE {})
    \cup (IF status = PRUEFUNG_ERFORDERLICH THEN {REC_DIVERGENZ} ELSE {})
    \cup (IF status = NICHT_BESTANDEN THEN {REC_RUECKHALTEVOLUMEN, REC_RIGOLE} ELSE {})
    \cup {REC_HINWEIS}

\* C9: the list is exactly the subsequence of the fixed order that the
\* conditions select (fraction > 0.8, fraction >= 0.7, total area > 2000,
\* status review, status fail, always), so the order never varies and no
\* entry occurs twice.
C9_FixedOrderSubsequence ==
    RecommendationsReturned =>
        LET sel == Selected(call.args[1], call.args[2], call.args[3])
            keep(x) == x \in sel
        IN  call.ret = SelectSeq(AdvisoryOrder, keep)

\* C9 witness: a failing site of 2001 m2 sealed above 80 %: six entries.
C9_Witness ==
    /\ RecommendationsReturned
    /\ call.args[1].grundstuecksflaeche = Num(2001)
    /\ call.args[2] = R(81, 100)
    /\ call.args[3] = NICHT_BESTANDEN
    /\ call.ret = <<REC_HOHER_VERSIEGELUNGSGRAD, REC_T100A, REC_2D_SIMULATION,
                    REC_RUECKHALTEVOLUMEN, REC_RIGOLE, REC_HINWEIS>>

AssessmentReturned == call.fn = "performDIN1986Assessment" /\ call.done

\* The pending call has a return: the routing has an answer for the
\* parameters it is handed, and the assessment of that answer is a record.
AssessmentCanReturn ==
    \E kw \in KinematicWaveAnswers(RoutingCall(call.args[1])) :
        DOMAIN performDIN1986Assessment(call.args[1], kw, now) # {}

\* C11: the slope performDIN1986Assessment hands to the routing is
\* max(gelaendeneigung / 100, 0.001): a slope input below 0.1 % (zero and
\* negative ones included) arrives as 0.001, one of 0.1 % or more arrives as
\* gelaendeneigung / 100, and a call with any slope returns.
C11_SlopeClampedAtMinimum ==
    call.fn = "performDIN1986Assessment" =>
        LET pct == call.args[1].gelaendeneigung
        IN  IF call.done
            THEN /\ (10 * pct.n < pct.d => Val(call.routed).slope = R(1, 1000))
                 /\ (10 * pct.n >= pct.d
                       => Val(call.routed).slope = R(pct.n, 100 * pct.d))
                 /\ Len(call.ret) = 1
            ELSE AssessmentCanReturn

\* C11 witness: a call with a slope input of 0 has returned, and the routing
\* was handed 0.001.
C11_Witness ==
    /\ AssessmentReturned
    /\ call.args[1].gelaendeneigung = Num(0)
    /\ Val(call.routed).slope = R(1, 1000)

\* The input keeps the caller's side of the contract: a valid site, a
\* positive slope and flow length, and a roughness between 0.01 and 0.1.
ValidInput(in) ==
    /\ ValidSite(in)
    /\ IsFinite(in.gelaendeneigung) /\ in.gelaendeneigung.n > 0
    /\ IsFinite(in.fliesslaenge) /\ in.fliesslaenge.n > 0
    /\ IsFinite(in.manningN)
    /\ 100 * in.manningN.n >= in.manningN.d
    /\ 10 * in.manningN.n <= in.manningN.d

FiniteNonNegative(a) == a.d > 0 /\ a.n >= 0

DefaultScenario(in) ==
    /\ in.grundstuecksflaeche = Num(2000)
    /\ in.versiegelteFlaeche = Num(1400)
    /\ in.gelaendeneigung = Num(2)
    /\ in.manningN = R(15, 1000)
    /\ in.fliesslaenge = Num(50)

\* C13: the form starts in the default scenario with no result, and the
\* input panel then shows the 'required' indicator, 'Versiegelungsgrad: 70%'
\* and 'T=100a'; and every assessment of the default scenario yields
\* nachweisErforderlich = true, versiegelungsgrad = 0.70 and
\* bemessungsregenJahre = 100.
C13_DefaultScenario ==
    /\ (/\ DefaultScenario(input)
        /\ result = NULL
        /\ render(input, result).threshold = "required"
        /\ render(input, result).versiegelungsgrad = "Versiegelungsgrad: 70%"
        /\ render(input, result).storm = "T=100a")
    /\ [][Calculated /\ DefaultScenario(input) =>
            /\ Val(result').nachweisErforderlich = TRUE
            /\ Val(result').versiegelungsgrad = R(7, 10)
            /\ Val(result').bemessungsregenJahre = 100]_vars

\* C13 witness: the default scenario has been assessed and is still in the
\* form: required, 0.70, 100 years.
C13_Witness ==
    /\ input = DEFAULT_INPUT
    /\ result # NULL
    /\ Val(result).nachweisErforderlich
    /\ Val(result).versiegelungsgrad = R(7, 10)
    /\ Val(result).bemessungsregenJahre = 100

\* A result without its timestamp.
Untimed(res) == [f \in DOMAIN res \ {"zeitstempel"} |-> res[f]]

DIN1986ResultFields ==
    {"nachweisErforderlich", "begruendung", "abflusswirksameFlaeche",
     "versiegelungsgrad", "bemessungsregenJahre", "regenspende", "abflussbeiwert",
     "spitzenabflussRational", "spitzenabflussPINN", "rueckhaltevolumen",
     "wasserqualitaetsvolumen", "kinematischeWelle", "nachweisStatus",
     "zeitstempel", "empfehlungen"}

\* C15: every call of performDIN1986Assessment returns, whatever numbers the
\* input holds (more sealed area than total area, no area at all, no slope),
\* and what it returns is a complete DIN1986Result whose status is one of
\* the three NachweisStatus values.
C15_TotalWithStatus ==
    call.fn = "performDIN1986Assessment" =>
        IF call.done
        THEN /\ Len(call.ret) = 1
             /\ DOMAIN Val(call.ret) = DIN1986ResultFields
             /\ Val(call.ret).nachweisStatus \in NachweisStatus
        ELSE AssessmentCanReturn

\* C15 witness: 3000 m2 sealed of 1000 m2 (a fraction of 3 and a negative
\* pervious area), required, and a status has been returned.
C15_Witness ==
    /\ AssessmentReturned
    /\ call.args[1].versiegelteFlaeche = Num(3000)
    /\ call.args[1].grundstuecksflaeche = Num(1000)
    /\ Val(call.ret).versiegelungsgrad = Num(3)
    /\ Val(call.ret).nachweisStatus \in NachweisStatus

\* C16: the stored result is null in the initial state; a step that stores
\* the first result is a calculate click (the input stays, the result is
\* the assessment of it); a calculate click without a result stores one; a
\* stored result is never reset to null; an export without a result leaves input,
\* result and clock as they are and saves nothing; and the results panel
\* shows the empty state and no export button exactly while the result is
\* null.
C16_ResultNullUntilCalculate ==
    /\ result = NULL
    /\ [](/\ (result = NULL <=> render(input, result).results = "copilot-results-empty")
          /\ (result = NULL <=> ~render(input, result).exportButton))
    /\ [][/\ (result # NULL => result' # NULL)
          /\ (result = NULL /\ result' # NULL =>
                /\ input' = input
                /\ \E kw \in KinematicWaveAnswers(RoutingCall(input)) :
                      result' = Some(performDIN1986Assessment(input, kw, now)))
          /\ (result = NULL /\ handleCalculate => result' # NULL)
          /\ (result = NULL /\ handleExportPDF
                => download' = NULL /\ UNCHANGED <<input, result, now>>)]_vars

\* C16 witness: after a calculate click and a later edit of the form the
\* result is still stored, and the panel shows the results with the export
\* button.
C16_Witness ==
    /\ result # NULL
    /\ input.versiegelteFlaeche # Val(result).abflusswirksameFlaeche
    /\ render(input, result).results = "ResultsView"
    /\ render(input, result).exportButton

\* C17: in every state the threshold indicator shows 'required' exactly
\* when the impervious area now in the form exceeds 800, and 'not-required'
\* otherwise, whatever result is stored.
C17_IndicatorFollowsInput ==
    /\ render(input, result).threshold \in {"required", "not-required"}
    /\ (render(input, result).threshold = "required"
          <=> input.versiegelteFlaeche.n > 800 * input.versiegelteFlaeche.d)
    /\ (render(input, result).thresholdText = "Ueberflutungsnachweis erforderlich"
          <=> input.versiegelteFlaeche.n > 800 * input.versiegelteFlaeche.d)

\* C17 witness: a result computed for more than 800 m2 is stored, the form
\* has since been edited to exactly 800 m2, and the indicator shows
\* 'not-required'.
C17_Witness ==
    /\ result # NULL
    /\ Val(result).nachweisErforderlich
    /\ input.versiegelteFlaeche = Num(800)
    /\ render(input, result).threshold = "not-required"

\* C18: an export click while a result is stored saves a file named
\* Ueberflutungsnachweis_<name>_<date>.pdf, where <name> is the project name
\* now in the form, or Entwurf when that is empty, and <date> is the clock's
\* date as YYYY-MM-DD; the document is generated for the project name, or
\* for Unbenanntes Projekt when it is empty.
C18_ExportFileName ==
    [][result # NULL /\ handleExportPDF =>
        /\ download' # NULL
        /\ Val(download').fileName
             = (IF input.projectName = ""
                THEN IF now = 0 THEN "Ueberflutungsnachweis_Entwurf_1970-01-01.pdf"
                     ELSE "Ueberflutungsnachweis_Entwurf_" \o isoDate(now) \o ".pdf"
                ELSE "Ueberflutungsnachweis_" \o input.projectName
                       \o "_" \o isoDate(now) \o ".pdf")
        /\ Val(download').pdf.projectName
             = (IF input.projectName = "" THEN "Unbenanntes Projekt"
                ELSE input.projectName)]_vars

\* C18 witness: a file saved for a named project on the second day.
C18_Witness ==
    /\ download # NULL
    /\ Val(download).fileName = "Ueberflutungsnachweis_MeinProjekt_1970-01-02.pdf"
    /\ Val(download).pdf.projectName = "MeinProjekt"

\* C19: a step that changes the form changes one field of it and leaves the
\* stored result alone; a step that changes the stored result leaves the
\* form alone and stores the assessment of the form as it is at that step;
\* so the stored result is that of the input at the latest calculate click.
C19_ResultOfLatestCalculate ==
    [][/\ (input' # input =>
            /\ result' = result
            /\ Cardinality({f \in DOMAIN input : input'[f] # input[f]}) = 1
            /\ DOMAIN input' = DOMAIN input)
       /\ (result' # result =>
            /\ input' = input
            /\ \E kw \in KinematicWaveAnswers(RoutingCall(input)) :
                  result' = Some(performDIN1986Assessment(input, kw, now)))]_vars

\* C19 witness: a result for 1400 m2 sealed was replaced, after an edit, by
\* one for 801 m2 of 1000 m2, which the form still holds.
C19_Witness ==
    /\ result # NULL
    /\ input.versiegelteFlaeche = Num(801)
    /\ input.grundstuecksflaeche = Num(1000)
    /\ Val(result).abflusswirksameFlaeche = Num(801)
    /\ Val(result).versiegelungsgrad = R(801, 1000)

\* C20: the regenspende of a result is 175 under the 30-year storm and 220
\* under the 100-year storm, never one of the 2-, 5-, 10- or 50-year
\* entries; the routing is handed the same value as rainfall, and the
\* rational discharge of the result is the one computed from it.
C20_RegenspendeFromPeriod ==
    AssessmentReturned =>
        LET r == Val(call.ret)
            in == call.args[1]
        IN  /\ r.bemessungsregenJahre \in {30, 100}
            /\ (r.bemessungsregenJahre = 30 => r.regenspende = Num(175))
            /\ (r.bemessungsregenJahre = 100 => r.regenspende = Num(220))
            /\ r.regenspende \notin {Num(95), Num(125), Num(145), Num(195)}
            /\ Val(call.routed).rainfall = r.regenspende
            /\ r.spitzenabflussRational
                  = computePeakRunoff(r.regenspende, in.grundstuecksflaeche,
                                      r.abflussbeiwert)

\* C20 witness: 800 of 2000 m2, the 30-year storm: 175 mm/hr in the result
\* and in the routing's parameters.
C20_Witness ==
    /\ AssessmentReturned
    /\ call.args[1].versiegelteFlaeche = Num(800)
    /\ call.args[1].grundstuecksflaeche = Num(2000)
    /\ Val(call.ret).bemessungsregenJahre = 30
    /\ Val(call.ret).regenspende = Num(175)
    /\ Val(call.routed).rainfall = Num(175)

\* C21: the rueckhaltevolumen of a result is its wasserqualitaetsvolumen
\* divided by 1000; the wasserqualitaetsvolumen is computeWQv of the depth
\* 25, the total area of the input and the abflussbeiwert of the result; and
\* the status of the result is the one determineComplianceStatus gives for
\* that rueckhaltevolumen.
C21_RetentionIsWQvByThousand ==
    AssessmentReturned =>
        LET r == Val(call.ret)
            in == call.args[1]
        IN  /\ r.rueckhaltevolumen = Div(r.wasserqualitaetsvolumen, Num(1000))
            /\ r.wasserqualitaetsvolumen
                  = computeWQv(Num(25), in.grundstuecksflaeche, r.abflussbeiwert)
            /\ r.nachweisStatus
                  = determineComplianceStatus(
                      r.nachweisErforderlich, r.spitzenabflussRational,
                      r.spitzenabflussPINN, r.rueckhaltevolumen)

\* C21 witness: 10000 m2 with 3000 m2 sealed: 120000 L, 120 m3, and with the
\* two discharges inside the band a status of PRUEFUNG_ERFORDERLICH.
C21_Witness ==
    /\ AssessmentReturned
    /\ call.args[1].grundstuecksflaeche = Num(10000)
    /\ call.args[1].versiegelteFlaeche = Num(3000)
    /\ Val(call.ret).wasserqualitaetsvolumen = Num(120000)
    /\ Val(call.ret).rueckhaltevolumen = Num(120)
    /\ Val(call.ret).spitzenabflussPINN = Num(264)
    /\ Val(call.ret).nachweisStatus = PRUEFUNG_ERFORDERLICH

\* C22: the recommendations of a result hold the T=100a advisory exactly
\* when the result's bemessungsregenJahre is 100.
C22_StormAdvisoryIffHundredYears ==
    AssessmentReturned =>
        (REC_T100A \in Range(Val(call.ret).empfehlungen)
           <=> Val(call.ret).bemessungsregenJahre = 100)

\* C22 witness: a fraction of exactly 0.70 (1400 of 2000 m2): 100 years and
\* the advisory.
C22_Witness ==
    /\ AssessmentReturned
    /\ Val(call.ret).versiegelungsgrad = R(7, 10)
    /\ Val(call.ret).bemessungsregenJahre = 100
    /\ REC_T100A \in Range(Val(call.ret).empfehlungen)

\* The ratio of the two discharges of a result, kinematic to rational.
ResultRatio(res) == Div(res.spitzenabflussPINN, res.spitzenabflussRational)

\* The two discharges of a result diverge: the ratio is below 0.3 or above 3.0.
Diverges(res) == Lt(ResultRatio(res), R(3, 10)) \/ Gt(ResultRatio(res), Num(3))

\* C23 as stated, and for valid inputs alone: the recommendations of a
\* result hold the divergence advisory only when its two discharges diverge.
C23_DivergenzOnlyWhenDiverging ==
    AssessmentReturned /\ ValidInput(call.args[1]) =>
        (REC_DIVERGENZ \in Range(Val(call.ret).empfehlungen)
           => Diverges(Val(call.ret)))

\* C23, amended: the recommendations of a result hold the divergence
\* advisory exactly when its status is PRUEFUNG_ERFORDERLICH, which is when
\* verification is required and either the two discharges diverge or they
\* do not and the retention volume is at least 50 and below 200 m3.
C23_DivergenzIffReview ==
    AssessmentReturned =>
        LET r == Val(call.ret)
        IN  /\ (REC_DIVERGENZ \in Range(r.empfehlungen)
                  <=> r.nachweisStatus = PRUEFUNG_ERFORDERLICH)
            /\ (r.nachweisStatus = PRUEFUNG_ERFORDERLICH
                  <=> /\ r.nachweisErforderlich
                      /\ \/ Diverges(r)
                         \/ /\ ~Lt(r.rueckhaltevolumen, Num(50))
                            /\ Lt(r.rueckhaltevolumen, Num(200)))

\* C23 witness: a result with the divergence advisory whose ratio lies
\* within [0.3, 3.0]: 10000 m2 with 3000 m2 sealed needs 120 m3.
C23_Witness ==
    /\ AssessmentReturned
    /\ ValidInput(call.args[1])
    /\ REC_DIVERGENZ \in Range(Val(call.ret).empfehlungen)
    /\ Geq(ResultRatio(Val(call.ret)), R(3, 10))
    /\ Leq(ResultRatio(Val(call.ret)), Num(3))
    /\ Val(call.ret).rueckhaltevolumen = Num(120)

\* The exported document was generated from a result that required
\* verification and passed it.
ExportedPassedVerification ==
    /\ download # NULL
    /\ Val(result).nachweisErforderlich
    /\ Val(result).nachweisStatus = BESTANDEN

\* C24 as stated, and for results of valid sites alone: the document
\* generated from a result that required verification and passed it carries
\* the note 'gute Uebereinstimmung'.
C24_NoteAgreesWithStatus ==
    /\ ExportedPassedVerification
    /\ Geq(Val(result).versiegelungsgrad, Num(0))
    /\ Leq(Val(result).versiegelungsgrad, Num(1))
    => Val(download).pdf.note = NOTE_GUT

\* C24, amended: the note of a generated document is 'gute
\* Uebereinstimmung' exactly when the ratio of the result's discharges lies
\* strictly between 0.5 and 2.0, and 'Pruefung empfohlen' otherwise; a
\* result that required verification and passed it has a ratio that does
\* not diverge, so its note is 'Pruefung empfohlen' exactly when the ratio
\* is at most 0.5 or at least 2.0.
C24_NoteFollowsOwnBand ==
    download # NULL =>
        LET r == Val(result)
            note == Val(download).pdf.note
            agree == Gt(ResultRatio(r), R(1, 2)) /\ Lt(ResultRatio(r), Num(2))
        IN  /\ note \in {NOTE_GUT, NOTE_PRUEFUNG}
            /\ (note = NOTE_GUT <=> agree)
            /\ (r.nachweisErforderlich /\ r.nachweisStatus = BESTANDEN
                  => /\ ~Diverges(r)
                     /\ (note = NOTE_PRUEFUNG <=> ~agree))

\* C24 witness: the document of the default site when the routing answers
\* 264 L/s, 3.0 times the rational 88 L/s: required, passed (36 m3), and the
\* note is 'Pruefung empfohlen'.
C24_Witness ==
    /\ ExportedPassedVerification
    /\ Val(result).versiegelungsgrad = R(7, 10)
    /\ ResultRatio(Val(result)) = Num(3)
    /\ Val(result).rueckhaltevolumen = Num(36)
    /\ Val(download).pdf.note = NOTE_PRUEFUNG

\* The returned call was made with verification required and a rational
\* discharge of zero.
ZeroDenominatorReturned ==
    /\ ComplianceReturned
    /\ call.args[1]
    /\ call.args[2] = Num(0)

\* C25 as stated: with verification required and a rational discharge of
\* zero the status is PRUEFUNG_ERFORDERLICH, whatever the kinematic
\* discharge and the retention volume are.
C25_ZeroDenominatorNeedsReview ==
    ZeroDenominatorReturned => call.ret = <<PRUEFUNG_ERFORDERLICH>>

\* C25, amended: with verification required and a rational discharge of
\* zero the call returns a status; for a kinematic discharge other than zero
\* the ratio is an infinity and the status is PRUEFUNG_ERFORDERLICH for
\* every retention volume; for a kinematic discharge of zero the ratio is
\* not a number, no comparison with it holds, and the volume decides:
\* BESTANDEN below 50, PRUEFUNG_ERFORDERLICH from 50 to below 200,
\* NICHT_BESTANDEN from 200 on.
C25_ZeroDenominatorByNumerator ==
    ZeroDenominatorReturned =>
        LET qPINN == call.args[3]
            vol == call.args[4]
        IN  /\ Len(call.ret) = 1
            /\ call.ret[1] \in NachweisStatus
            /\ (qPINN # Num(0) => /\ IsInf(CallRatio)
                                  /\ call.ret = <<PRUEFUNG_ERFORDERLICH>>)
            /\ (qPINN = Num(0) =>
                  /\ IsNaN(CallRatio)
                  /\ call.ret = <<IF vol.n < 50 * vol.d THEN BESTANDEN
                                   ELSE IF vol.n < 200 * vol.d
                                        THEN PRUEFUNG_ERFORDERLICH
                                   ELSE NICHT_BESTANDEN>>)

\* C25 witness: required, both discharges zero, 1000 m3 to retain: the
\* status is NICHT_BESTANDEN.
C25_Witness ==
    /\ ComplianceReturned
    /\ call.args = <<TRUE, Num(0), Num(0), Num(1000)>>
    /\ call.ret = <<NICHT_BESTANDEN>>

\* C26: in the state a calculate click leaves, the threshold indicator
\* shows 'required' exactly when the result just stored says
\* nachweisErforderlich, whatever the form holds.
C26_IndicatorAgreesAfterCalculate ==
    [][Calculated =>
        (render(input', result').threshold = "required"
           <=> Val(result').nachweisErforderlich)]_vars

\* C26 witness: the form holds exactly 800 m2, the stored result is the
\* assessment of it and says not required, and the indicator shows
\* 'not-required'.
C26_Witness ==
    /\ result # NULL
    /\ input.versiegelteFlaeche = Num(800)
    /\ Val(result).abflusswirksameFlaeche = Num(800)
    /\ Val(result).nachweisErforderlich = FALSE
    /\ render(input, result).threshold = "not-required"

\* The storm label of the panel names the period the assessment of the
\* form's input returns, whatever the routing answers.
StormLabelAgrees ==
    \A kw \in KinematicWaveAnswers(RoutingCall(input)) :
        LET jahre == performDIN1986Assessment(input, kw, now).bemessungsregenJahre
        IN  render(input, result).storm = (IF jahre = 100 THEN "T=100a" ELSE "T=30a")

\* C27 as stated: in every state the storm label of the panel names the
\* period the assessment returns for the same input.
C27_StormLabelAgrees == StormLabelAgrees

\* C27, amended: while the total area in the form is positive, the storm
\* label names the period the assessment returns for the same input; with a
\* total area of 0 the label is T=30a, and the assessment returns 100 when
\* the impervious area is positive (its fraction is Infinity) and 30 when
\* it is 0 as well (its fraction is not a number).
C27_StormLabelAgreesOnPositiveArea ==
    /\ (input.grundstuecksflaeche.n > 0 => StormLabelAgrees)
    /\ (input.grundstuecksflaeche = Num(0) =>
          /\ render(input, result).storm = "T=30a"
          /\ \A kw \in KinematicWaveAnswers(RoutingCall(input)) :
                performDIN1986Assessment(input, kw, now).bemessungsregenJahre
                  = (IF input.versiegelteFlaeche.n > 0 THEN 100 ELSE 30))

\* C27 witness: the form holds a total area of 0 with 1400 m2 sealed, the
\* stored result is the assessment of it (fraction Infinity, 100 years),
\* and the panel shows T=30a.
C27_Witness ==
    /\ input.grundstuecksflaeche = Num(0)
    /\ input.versiegelteFlaeche = Num(1400)
    /\ result # NULL
    /\ Val(result).abflusswirksameFlaeche = Num(1400)
    /\ Val(result).versiegelungsgrad = R(1, 0)
    /\ Val(result).bemessungsregenJahre = 100
    /\ render(input, result).storm = "T=30a"

\* The weighted coefficient in exact arithmetic (a lemma, not the settlement
\* of C10): for a valid site every assessment yields a runoff coefficient
\* between the pervious and the impervious coefficient, the pervious one when
\* nothing is sealed and the impervious one when all is sealed.  The numbers
\* of this module do not round.  The program's do: each of the two products,
\* the sum and the quotient is rounded to a double, and whether the rounded
\* quotient still meets the ends of the interval depends on the values of
\* RUNOFF_COEFFICIENTS, which utils/hydrology sets.
ExactCoefficientWithinBounds ==
    [][Calculated /\ ValidSite(input) =>
        LET psi == Val(result').abflussbeiwert
        IN  /\ Geq(psi, RUNOFF_COEFFICIENTS.pervious)
            /\ Leq(psi, RUNOFF_COEFFICIENTS.impervious)
            /\ (input.versiegelteFlaeche = Num(0)
                  => psi = RUNOFF_COEFFICIENTS.pervious)
            /\ (input.versiegelteFlaeche = input.grundstuecksflaeche
                  => psi = RUNOFF_COEFFICIENTS.impervious)]_vars

====
